---------------------------- MODULE Spec2Model ----------------------------
(***************************************************************************)
(* Hierarchical chat memory of the LINE bot in src/app.py:                 *)
(* SQLiteManager (the memory store), ChatBot (summarization, prompt        *)
(* assembly, backend adapter) and handle_message (the webhook handler).    *)
(*                                                                         *)
(* A text is a sequence of tokens, so that concatenation, strip() and      *)
(* substring are computed and not assumed.  The Gemini backend, the SQLite *)
(* file and the LINE reply API are the environment: each call returns one  *)
(* of the outcomes the library can produce.                                *)
(***************************************************************************)
EXTENDS Integers, Sequences, FiniteSets, TLC

(***************************************************************************)
(* Bounds of the model.                                                    *)
(*                                                                         *)
(* MAX_TURNS is 10 in src/app.py:25.  The model runs the same code with    *)
(* the threshold scaled down, so that every combination of backend and     *)
(* store outcomes and every interleaving up to and past a summarization    *)
(* is explored; MAX_SHORT_TERM_MESSAGES keeps its shipped relation to it.  *)
(***************************************************************************)
MAX_TURNS ==
    2

MAX_SHORT_TERM_MESSAGES ==
    MAX_TURNS * 2

\* Message events delivered to the webhook in one run of Spec.
MaxEvents ==
    3

\* Message events delivered in one run of SeqSpec (one handler at a time).
MaxSeqEvents ==
    5

\* Message events delivered in one run of LiveSpec.
MaxLiveEvents ==
    3

\* Message events delivered in one run of CapSpec.
MaxCapEvents ==
    4

\* Message events delivered in one run of VersionSpec.
MaxVersionEvents ==
    3

\* Message events delivered in one run of CorruptSpec.
MaxCorruptEvents ==
    2

\* The request handlers the server can run at once in Spec.
Workers ==
    {"h1", "h2"}

(***************************************************************************)
(* Texts                                                                   *)
(***************************************************************************)
SPACE ==
    " "

BOT_MENTION_NAME ==
    "BOT"

\* "@" + bot_name, the substring handle_message removes from a group text.
AT_MENTION ==
    "@BOT"

\* The tokens in which bot_name occurs as a substring.
HasBotName(tok) ==
    tok \in {BOT_MENTION_NAME, AT_MENTION}

\* bot_name in user_text
ContainsBotName(text) ==
    \E i \in 1..Len(text) : HasBotName(text[i])

RECURSIVE LStrip(_)
LStrip(text) ==
    IF text # <<>> /\ Head(text) = SPACE THEN LStrip(Tail(text)) ELSE text

RECURSIVE RStrip(_)
RStrip(text) ==
    IF text # <<>> /\ text[Len(text)] = SPACE
    THEN RStrip(SubSeq(text, 1, Len(text) - 1))
    ELSE text

\* str.strip()
Strip(text) ==
    RStrip(LStrip(text))

\* user_text.replace(f"@{bot_name}", "")
RemoveMention(text) ==
    SelectSeq(text, LAMBDA tok : tok # AT_MENTION)

\* role.capitalize()
Capitalize(role) ==
    IF role = "user" THEN "User"
    ELSE IF role = "assistant" THEN "Assistant"
    ELSE role

RECURSIVE Join(_, _)
\* sep.join(parts), parts a sequence of texts
Join(parts, sep) ==
    IF parts = <<>> THEN <<>>
    ELSE IF Len(parts) = 1 THEN parts[1]
    ELSE parts[1] \o <<sep>> \o Join(Tail(parts), sep)

Last(n, s) ==
    SubSeq(s, Len(s) - n + 1, Len(s))

(***************************************************************************)
(* SQLiteManager: table user_memory, a row per user_id                     *)
(***************************************************************************)
Roles ==
    {"user", "assistant"}

\* json.dumps(history): the list of {"role", "content"} objects written out
\* as the flat sequence role, content, role, content, ...
JsonDumps(history) ==
    [i \in 1..(2 * Len(history)) |->
        IF i % 2 = 1 THEN history[(i + 1) \div 2].role
        ELSE history[i \div 2].content]

\* Whether json.loads accepts the stored string (no JSONDecodeError).
JsonValid(history_json) ==
    /\ Len(history_json) % 2 = 0
    /\ \A i \in 1..Len(history_json) : i % 2 = 1 => history_json[i] \in Roles

\* json.loads(history_json) of an accepted string
JsonLoads(history_json) ==
    [i \in 1..(Len(history_json) \div 2) |->
        [role |-> history_json[2 * i - 1], content |-> history_json[2 * i]]]

\* get_memory answering a history it cannot decode with the initial record.
get_memory_forgets_undecodable(table, user_id) ==
    IF user_id \in DOMAIN table /\ JsonValid(table[user_id].history)
    THEN [user_id    |-> user_id,
          history    |-> JsonLoads(table[user_id].history),
          summary    |-> table[user_id].summary,
          turn_count |-> table[user_id].turn_count]
    ELSE [user_id |-> user_id, history |-> <<>>, summary |-> <<>>, turn_count |-> 0]

\* SQLiteManager.get_memory: the stored row, or the initial value.
get_memory(table, user_id) ==
    IF user_id \in DOMAIN table
    THEN [user_id    |-> user_id,
          history    |-> IF JsonValid(table[user_id].history)
                         THEN JsonLoads(table[user_id].history)
                         ELSE <<>>,
          summary    |-> table[user_id].summary,
          turn_count |-> table[user_id].turn_count]
    ELSE [user_id |-> user_id, history |-> <<>>, summary |-> <<>>, turn_count |-> 0]

\* save_memory with "history = excluded.history" missing from the UPDATE SET
\* list: the history of an existing row stays.
save_memory_keeps_history(table, user_id, history, summary, turn_count, timestamp) ==
    [u \in (DOMAIN table) \cup {user_id} |->
        IF u = user_id
        THEN [history      |-> IF u \in DOMAIN table THEN table[u].history
                               ELSE JsonDumps(history),
              summary      |-> summary,
              turn_count   |-> turn_count,
              last_updated |-> timestamp]
        ELSE table[u]]

\* save_memory with an UPDATE that has no WHERE user_id = ?: every row takes
\* the new values.
save_memory_every_row(table, user_id, history, summary, turn_count, timestamp) ==
    [u \in (DOMAIN table) \cup {user_id} |->
        [history      |-> JsonDumps(history),
         summary      |-> summary,
         turn_count   |-> turn_count,
         last_updated |-> timestamp]]

\* save_memory with "summary = excluded.summary" missing from the UPDATE SET
\* list: the summary of an existing row stays.
save_memory_keeps_summary(table, user_id, history, summary, turn_count, timestamp) ==
    [u \in (DOMAIN table) \cup {user_id} |->
        IF u = user_id
        THEN [history      |-> JsonDumps(history),
              summary      |-> IF u \in DOMAIN table THEN table[u].summary
                               ELSE summary,
              turn_count   |-> turn_count,
              last_updated |-> timestamp]
        ELSE table[u]]

\* SQLiteManager.save_memory: INSERT ... ON CONFLICT(user_id) DO UPDATE SET
\* every column; the table after the commit.
save_memory(table, user_id, history, summary, turn_count, timestamp) ==
    [u \in (DOMAIN table) \cup {user_id} |->
        IF u = user_id
        THEN [history      |-> JsonDumps(history),
              summary      |-> summary,
              turn_count   |-> turn_count,
              last_updated |-> timestamp]
        ELSE table[u]]

(***************************************************************************)
(* ChatBot                                                                 *)
(***************************************************************************)
\* self.personality_prompt (the character sheet, one token here)
personality_prompt ==
    <<"[persona]">>

\* summary_system_prompt of generate_response
summary_system_prompt ==
    <<"[compress the summary and the recent history]">>

\* The errors genai can raise: timeout, quota, blocked or malformed response.
GeminiErrors ==
    {"quota exceeded"}

\* What the backend can answer to a reply request, before strip().
RawReplies ==
    {<<"ok">>, <<SPACE, "ok", SPACE>>}

\* What the backend can answer to a summarization request, before strip().
RawSummaries ==
    {<<"digest">>, <<"digest", SPACE>>}

\* One call of model.generate_content: a text, or an exception.
BackendOutcomes(raw) ==
    [ok : {TRUE}, val : raw] \cup [ok : {FALSE}, val : {<<e>> : e \in GeminiErrors}]

\* f"Gemini側でエラーが発生しました: {e}"
GeminiErrorText(e) ==
    <<"Gemini error: ">> \o e

\* model_name = "gemini-2.5-pro" if version == "1.5" else "gemini-2.5-flash"
ModelName(version) ==
    IF version = "1.5" THEN "gemini-2.5-pro" ELSE "gemini-2.5-flash"

\* The request _call_gemini_api hands to genai: assistant becomes model, a
\* leading system message becomes the system instruction.
GeminiRequest(msgs, model_name) ==
    LET contents == [i \in 1..Len(msgs) |->
                        [role  |-> IF msgs[i].role = "assistant" THEN "model"
                                   ELSE msgs[i].role,
                         parts |-> msgs[i].content]]
        sys == contents # <<>> /\ contents[1].role = "system"
    IN  [model_name         |-> model_name,
         system_instruction |-> IF sys THEN contents[1].parts ELSE <<>>,
         contents           |-> IF sys THEN Tail(contents) ELSE contents]

\* _call_gemini_api without its try/except: the exception of the backend
\* leaves the call.
call_gemini_api_unguarded(msgs, model_name, is_summary, outcome) ==
    IF outcome.ok
    THEN [raised |-> FALSE, text |-> Strip(outcome.val)]
    ELSE [raised |-> TRUE, text |-> <<>>]

\* ChatBot._call_gemini_api: what the call gives its caller.  raised says
\* whether an exception leaves the call; text is the string returned:
\* response.text.strip(), or in the except branch the error string built
\* from the exception.
_call_gemini_api(msgs, model_name, is_summary, outcome) ==
    IF outcome.ok
    THEN [raised |-> FALSE, text |-> Strip(outcome.val)]
    ELSE [raised |-> FALSE, text |-> GeminiErrorText(outcome.val)]

\* summary_history_text: one "Role: content" line per message
summary_history_text(history) ==
    Join([i \in 1..Len(history) |->
              <<Capitalize(history[i].role), ": ">> \o history[i].content],
         "\n")

\* summary_messages rendering the last exchange of the history only.
SummaryMessagesLastExchange(summary, history) ==
    << [role |-> "system", content |-> summary_system_prompt],
       [role |-> "user",
        content |-> <<"[long-term summary so far]:\n">> \o summary
                    \o <<"\n\n[recent conversation]:\n">>
                    \o summary_history_text(
                           SubSeq(history, Len(history) - 1, Len(history)))] >>

\* summary_messages of generate_response
SummaryMessages(summary, history) ==
    << [role |-> "system", content |-> summary_system_prompt],
       [role |-> "user",
        content |-> <<"[long-term summary so far]:\n">> \o summary
                    \o <<"\n\n[recent conversation]:\n">>
                    \o summary_history_text(history)] >>

\* combined_system_prompt: the persona, and the summary when it is not empty
combined_system_prompt(summary) ==
    IF summary # <<>>
    THEN personality_prompt \o <<"\n\n[long-term summary]: ">> \o summary
    ELSE personality_prompt

\* messages of step 3 with the stored role passed on as it is.
ReplyMessagesStoredRoles(summary, history, user_message) ==
    << [role |-> "system", content |-> combined_system_prompt(summary)] >>
    \o [i \in 1..Len(history) |->
           [role |-> history[i].role, content |-> history[i].content]]
    \o << [role |-> "user", content |-> user_message] >>

\* messages of generate_response (step 3)
ReplyMessages(summary, history, user_message) ==
    << [role |-> "system", content |-> combined_system_prompt(summary)] >>
    \o [i \in 1..Len(history) |->
           [role    |-> IF history[i].role = "user" THEN "user" ELSE "model",
            content |-> history[i].content]]
    \o << [role |-> "user", content |-> user_message] >>

\* Step 5 with the cut taken one entry too early and too deep.
UpdateHistoryEagerCut(history, user_message, ai_response, cap) ==
    LET appended == history \o << [role |-> "user", content |-> user_message],
                                 [role |-> "assistant", content |-> ai_response] >>
    IN  IF Len(appended) >= cap THEN Last(cap - 1, appended) ELSE appended

\* Step 5 with the slice history[:cap] in place of history[-cap:].
UpdateHistoryKeepsOldest(history, user_message, ai_response, cap) ==
    LET appended == history \o << [role |-> "user", content |-> user_message],
                                 [role |-> "assistant", content |-> ai_response] >>
    IN  IF Len(appended) > cap THEN SubSeq(appended, 1, cap) ELSE appended

\* Step 5 with the two new turns put in front of the history.
UpdateHistoryPrepends(history, user_message, ai_response, cap) ==
    LET appended == << [role |-> "user", content |-> user_message],
                       [role |-> "assistant", content |-> ai_response] >> \o history
    IN  IF Len(appended) > cap THEN Last(cap, appended) ELSE appended

\* Step 5 of generate_response: the two new turns are appended and the list
\* is cut to its last cap entries.
UpdateHistory(history, user_message, ai_response, cap) ==
    LET appended == history \o << [role |-> "user", content |-> user_message],
                                 [role |-> "assistant", content |-> ai_response] >>
    IN  IF Len(appended) > cap THEN Last(cap, appended) ELSE appended

(***************************************************************************)
(* Message events                                                          *)
(***************************************************************************)
\* reply sent by the except branch of handle_message
APOLOGY ==
    <<"[sorry, internal error, try again]">>

\* user_text of a group message that held nothing but the mention
MENTION_ONLY_TEXT ==
    <<"[are you talking to me?]">>

\* The text message events LINE can deliver: event.source.type, the id of
\* that source and event.message.text.
Events ==
    [source_type : {"user"}, source_id : {"U1"},
     text : {<<"hi">>}]
    \cup [source_type : {"group"}, source_id : {"G1"},
          text : {<<"hi">>, <<AT_MENTION>>}]
    \cup [source_type : {"room"}, source_id : {"R1"},
          text : {<<"yo">>, <<AT_MENTION, SPACE, "yo">>}]
    \cup [source_type : {"beacon"}, source_id : {"none"}, text : {<<"hi">>}]

\* The filter without the test "bot_name not in user_text".
AcceptedWithoutMentionTest(ev) ==
    ev.source_type \in {"user", "group", "room"}

\* Whether handle_message goes on to the chatbot for this event.
Accepted(ev) ==
    \/ ev.source_type = "user"
    \/ ev.source_type \in {"group", "room"} /\ ContainsBotName(ev.text)

\* user_text as handle_message passes it to generate_response
CleanText(ev) ==
    IF ev.source_type \in {"group", "room"}
    THEN IF Strip(RemoveMention(ev.text)) = <<>>
         THEN MENTION_ONLY_TEXT
         ELSE Strip(RemoveMention(ev.text))
    ELSE ev.text

(***************************************************************************)
(* State                                                                   *)
(***************************************************************************)
VARIABLES
    user_memory,             \* the table: user_id -> row
    now,                     \* datetime.now(), a logical clock
    max_turns,               \* the module global MAX_TURNS
    max_short_term_messages, \* the module global MAX_SHORT_TERM_MESSAGES
    versions,                \* the version flags generate_response is called with
    concurrency,             \* handlers the server runs at once
    budget,                  \* message events still to be delivered
    pc,                      \* where each handler is
    req,                     \* the locals of each handler
    sent,                    \* the reply_message calls of each handler
    obs,                     \* per handler: what its exchange read and drew
    per_user                 \* per user_id: the exchanges persisted so far

vars ==
    <<user_memory, now, max_turns, max_short_term_messages, versions,
      concurrency, budget, pc, req, sent, obs, per_user>>

\* version passed by handle_message
VERSION ==
    "2.0"

\* The flags a caller of generate_response can pass: the premium one, the
\* one handle_message passes, and one that is neither.
Versions ==
    {"1.5", VERSION, "3.0"}

\* The locals of a handler that has not started.  source_type and event_text
\* are the event as it arrived; exc is the exception on its way to the
\* except branch of handle_message ("no" when there is none).
NoReq ==
    [source_type |-> "none", event_text |-> <<>>,
     source_id |-> "none", user_text |-> <<>>,
     version |-> "none", model_name |-> "none",
     history |-> <<>>, summary |-> <<>>, turn_count |-> 0,
     new_summary_text |-> <<>>, summary_messages |-> <<>>, messages |-> <<>>,
     ai_response |-> <<>>, exc |-> "no"]

\* The memory record as generate_response holds it.
Record(history, summary, turn_count) ==
    [history |-> history, summary |-> summary, turn_count |-> turn_count]

NoRecord ==
    Record(<<>>, <<>>, 0)

NoOutcome ==
    [ok |-> FALSE, val |-> <<>>]

\* loaded: the record get_memory returned; decode_failed: json.loads raised
\* on the stored history; loaded_at, saved_at: last_updated of the row read
\* and of the row written; summarized: "no", "ok" or "failed"; sum_outcome,
\* reply_outcome: what the backend answered, stripped.
NoObs ==
    [loaded |-> NoRecord, decode_failed |-> FALSE, loaded_at |-> 0, saved_at |-> 0,
     summarized |-> "no", reply_failed |-> FALSE, after_failed_summary |-> FALSE,
     sum_outcome |-> NoOutcome, reply_outcome |-> NoOutcome]

\* exchanges: how many were persisted; clean: no backend call of them
\* failed; last_summary: the summarization of the last one ("no", "ok",
\* "failed"); since_summary: the turns persisted since the last summarization;
\* overlapped: two exchanges of this user_id were in flight together;
\* serial: the record that the exchanges persisted so far leave when they
\* run alone, one after the other.
NoExchanges ==
    [exchanges |-> 0, clean |-> TRUE, last_summary |-> "no", since_summary |-> <<>>,
     overlapped |-> FALSE, serial |-> NoRecord]

UserIds ==
    {ev.source_id : ev \in {e \in Events : Accepted(e)}}

\* last_updated of the row of user_id, 0 when there is none
LastUpdated(table, user_id) ==
    IF user_id \in DOMAIN table THEN table[user_id].last_updated ELSE 0

InitCommon ==
    /\ user_memory = << >>
    /\ now = 0
    /\ pc = [w \in Workers |-> "idle"]
    /\ req = [w \in Workers |-> NoReq]
    /\ sent = [w \in Workers |-> <<>>]
    /\ obs = [w \in Workers |-> NoObs]
    /\ per_user = [u \in UserIds |-> NoExchanges]

\* The shipped configuration, handlers running concurrently.
Init ==
    /\ InitCommon
    /\ max_turns = MAX_TURNS
    /\ max_short_term_messages = MAX_SHORT_TERM_MESSAGES
    /\ versions = {VERSION}
    /\ concurrency = Cardinality(Workers)
    /\ budget = MaxEvents

\* The shipped configuration, one handler at a time.
InitSeq ==
    /\ InitCommon
    /\ max_turns = MAX_TURNS
    /\ max_short_term_messages = MAX_SHORT_TERM_MESSAGES
    /\ versions = {VERSION}
    /\ concurrency = 1
    /\ budget = MaxSeqEvents

\* Summarization set later than the cap: the threshold is one above the
\* shipped one while the cap is the shipped one.  One handler at a time.
InitCap ==
    /\ InitCommon
    /\ max_turns = MAX_TURNS + 1
    /\ max_short_term_messages = MAX_SHORT_TERM_MESSAGES
    /\ versions = {VERSION}
    /\ concurrency = 1
    /\ budget = MaxCapEvents

\* generate_response called with any version flag, one handler at a time.
InitVersion ==
    /\ InitCommon
    /\ max_turns = MAX_TURNS
    /\ max_short_term_messages = MAX_SHORT_TERM_MESSAGES
    /\ versions = Versions
    /\ concurrency = 1
    /\ budget = MaxVersionEvents

\* History columns json.loads raises JSONDecodeError on: a text cut off in
\* the middle of an object, and a text that is not JSON.
UndecodableHistories ==
    {<<"user", <<"hi">>, "assistant">>, <<"{", <<"hi">>>>}

\* The table file holds a row of U1 whose history column cannot be decoded
\* (written or damaged outside the program), with any summary and any
\* turn_count up to the threshold.  One handler at a time.
InitCorrupt ==
    /\ now = 0
    /\ pc = [w \in Workers |-> "idle"]
    /\ req = [w \in Workers |-> NoReq]
    /\ sent = [w \in Workers |-> <<>>]
    /\ obs = [w \in Workers |-> NoObs]
    /\ per_user = [u \in UserIds |-> NoExchanges]
    /\ \E history_json \in UndecodableHistories, summary \in {<<>>, <<"digest">>},
          turn_count \in 0..MAX_TURNS :
           user_memory = [u \in {"U1"} |-> [history      |-> history_json,
                                            summary      |-> summary,
                                            turn_count   |-> turn_count,
                                            last_updated |-> 0]]
    /\ max_turns = MAX_TURNS
    /\ max_short_term_messages = MAX_SHORT_TERM_MESSAGES
    /\ versions = {VERSION}
    /\ concurrency = 1
    /\ budget = MaxCorruptEvents

\* The shipped configuration, one handler at a time, for the progress of a
\* handler.
InitLive ==
    /\ InitCommon
    /\ max_turns = MAX_TURNS
    /\ max_short_term_messages = MAX_SHORT_TERM_MESSAGES
    /\ versions = {VERSION}
    /\ concurrency = 1
    /\ budget = MaxLiveEvents

(***************************************************************************)
(* ChatBot.generate_response on its locals                                 *)
(***************************************************************************)
\* Step 2 without the reset of turn_count.
SummarizationStepKeepsCount(l, outcome) ==
    LET summary_messages == SummaryMessages(l.summary, l.history)
        called == _call_gemini_api(summary_messages, l.model_name, TRUE, outcome)
    IN  [l EXCEPT !.summary_messages = summary_messages,
                  !.new_summary_text = called.text,
                  !.summary = Strip(called.text),
                  !.history = <<>>]

\* Step 2, the body of "if turn_count >= MAX_TURNS": the summarization call,
\* then summary is replaced and history and turn_count are reset.
SummarizationStep(l, outcome) ==
    LET summary_messages == SummaryMessages(l.summary, l.history)
        called == _call_gemini_api(summary_messages, l.model_name, TRUE, outcome)
    IN  IF called.raised
        THEN [l EXCEPT !.summary_messages = summary_messages, !.exc = "gemini"]
        ELSE [l EXCEPT !.summary_messages = summary_messages,
                       !.new_summary_text = called.text,
                       !.summary = Strip(called.text),
                       !.history = <<>>,
                       !.turn_count = 0]

\* Steps 3 to 5 with an exchange of the premium model left out of the turn
\* count.
ReplyStepPremiumUncounted(l, outcome, cap) ==
    LET messages == ReplyMessages(l.summary, l.history, l.user_text)
        called == _call_gemini_api(messages, l.model_name, FALSE, outcome)
    IN  [l EXCEPT !.messages = messages,
                  !.ai_response = called.text,
                  !.history = UpdateHistory(l.history, l.user_text, called.text, cap),
                  !.turn_count = IF l.model_name = "gemini-2.5-pro"
                                 THEN l.turn_count ELSE l.turn_count + 1]

\* Steps 3 to 5 up to the save: the prompt, the reply call, the two new
\* turns, the cap and the turn count.
ReplyStep(l, outcome, cap) ==
    LET messages == ReplyMessages(l.summary, l.history, l.user_text)
        called == _call_gemini_api(messages, l.model_name, FALSE, outcome)
    IN  IF called.raised
        THEN [l EXCEPT !.messages = messages, !.exc = "gemini"]
        ELSE [l EXCEPT !.messages = messages,
                       !.ai_response = called.text,
                       !.history = UpdateHistory(l.history, l.user_text,
                                                 called.text, cap),
                       !.turn_count = l.turn_count + 1]

\* generate_response run alone on a record: the record it would save.
GenerateResponse(memory, user_text, sum_outcome, reply_outcome, threshold, cap) ==
    LET l0 == [NoReq EXCEPT !.user_text = user_text,
                            !.model_name = ModelName(VERSION),
                            !.history = memory.history,
                            !.summary = memory.summary,
                            !.turn_count = memory.turn_count]
        l1 == IF l0.turn_count >= threshold
              THEN SummarizationStep(l0, sum_outcome) ELSE l0
        l2 == ReplyStep(l1, reply_outcome, cap)
    IN  Record(l2.history, l2.summary, l2.turn_count)

(***************************************************************************)
(* handle_message and generate_response, one action per blocking call: the *)
(* table read, the two backend calls, the table write and the reply to     *)
(* LINE.                                                                   *)
(***************************************************************************)
Busy ==
    {w \in Workers : pc[w] # "idle"}

\* The handlers between the read and the write of the row of user_id u.
InFlight(u) ==
    {w \in Workers : req[w].source_id = u
                     /\ pc[w] \in {"load", "summarize", "generate", "save"}}

\* handle_message up to the try block: the source id, the mention filter
\* and the clean-up of the text, then the call of generate_response with its
\* version flag.  An event that is not accepted makes handle_message return
\* at once.
HandleMessage(w, ev) ==
    /\ pc[w] = "idle"
    /\ budget > 0
    /\ Cardinality(Busy) < concurrency
    /\ budget' = budget - 1
    /\ IF Accepted(ev)
       THEN /\ pc' = [pc EXCEPT ![w] = "load"]
            /\ \E version \in versions :
                   req' = [req EXCEPT ![w] = [NoReq EXCEPT
                                               !.source_type = ev.source_type,
                                               !.event_text = ev.text,
                                               !.source_id = ev.source_id,
                                               !.user_text = CleanText(ev),
                                               !.version = version,
                                               !.model_name = ModelName(version)]]
            /\ per_user' = [per_user EXCEPT ![ev.source_id].overlapped =
                                                @ \/ InFlight(ev.source_id) # {}]
       ELSE /\ pc' = [pc EXCEPT ![w] = "return"]
            /\ req' = [req EXCEPT ![w] = [NoReq EXCEPT
                                            !.source_type = ev.source_type,
                                            !.event_text = ev.text]]
            /\ UNCHANGED per_user
    /\ UNCHANGED <<user_memory, now, max_turns, max_short_term_messages, versions,
                   concurrency, sent, obs>>

\* Step 1 with a get_memory that inserts the initial row when it finds none
\* (get-or-create).
GetMemoryCreates(w, db_ok) ==
    /\ pc[w] = "load"
    /\ db_ok
    /\ LET memory == get_memory(user_memory, req[w].source_id)
       IN  /\ req' = [req EXCEPT ![w].history = memory.history,
                                 ![w].summary = memory.summary,
                                 ![w].turn_count = memory.turn_count]
           /\ obs' = [obs EXCEPT
                        ![w].loaded = Record(memory.history, memory.summary,
                                             memory.turn_count),
                        ![w].loaded_at = LastUpdated(user_memory, req[w].source_id)]
           /\ pc' = [pc EXCEPT ![w] = IF memory.turn_count >= max_turns
                                      THEN "summarize" ELSE "generate"]
           /\ user_memory' =
                  IF req[w].source_id \in DOMAIN user_memory THEN user_memory
                  ELSE save_memory(user_memory, req[w].source_id, <<>>, <<>>, 0, 0)
    /\ UNCHANGED <<now, max_turns, max_short_term_messages, versions,
                   concurrency, budget, sent, per_user>>

\* Step 1 with the threshold test of step 2 written turn_count > MAX_TURNS.
GetMemoryLateThreshold(w, db_ok) ==
    /\ pc[w] = "load"
    /\ db_ok
    /\ LET memory == get_memory(user_memory, req[w].source_id)
       IN  /\ req' = [req EXCEPT ![w].history = memory.history,
                                 ![w].summary = memory.summary,
                                 ![w].turn_count = memory.turn_count]
           /\ obs' = [obs EXCEPT
                        ![w].loaded = Record(memory.history, memory.summary,
                                             memory.turn_count),
                        ![w].loaded_at = LastUpdated(user_memory, req[w].source_id)]
           /\ pc' = [pc EXCEPT ![w] = IF memory.turn_count > max_turns
                                      THEN "summarize" ELSE "generate"]
    /\ UNCHANGED <<user_memory, now, max_turns, max_short_term_messages, versions,
                   concurrency, budget, sent, per_user>>

\* generate_response step 1: memory = self.db_manager.get_memory(user_id)
\* and the threshold test of step 2.  sqlite3 can raise (db_ok = FALSE).
GetMemory(w, db_ok) ==
    /\ pc[w] = "load"
    /\ IF db_ok
       THEN LET memory == get_memory(user_memory, req[w].source_id)
            IN  /\ req' = [req EXCEPT ![w].history = memory.history,
                                      ![w].summary = memory.summary,
                                      ![w].turn_count = memory.turn_count]
                /\ obs' = [obs EXCEPT
                             ![w].loaded = Record(memory.history, memory.summary,
                                                  memory.turn_count),
                             ![w].decode_failed =
                                 /\ req[w].source_id \in DOMAIN user_memory
                                 /\ ~JsonValid(user_memory[req[w].source_id].history),
                             ![w].loaded_at = LastUpdated(user_memory, req[w].source_id),
                             ![w].after_failed_summary =
                                 (per_user[req[w].source_id].last_summary = "failed")]
                /\ pc' = [pc EXCEPT ![w] = IF memory.turn_count >= max_turns
                                           THEN "summarize" ELSE "generate"]
       ELSE /\ pc' = [pc EXCEPT ![w] = "except"]
            /\ req' = [req EXCEPT ![w].exc = "sqlite3"]
            /\ UNCHANGED obs
    /\ UNCHANGED <<user_memory, now, max_turns, max_short_term_messages, versions,
                   concurrency, budget, sent, per_user>>

\* The outcome as the handler sees it: the text after strip().
Stripped(outcome) ==
    [ok |-> outcome.ok, val |-> IF outcome.ok THEN Strip(outcome.val) ELSE outcome.val]

\* generate_response step 2, taken when turn_count >= MAX_TURNS.
Summarize(w, outcome) ==
    /\ pc[w] = "summarize"
    /\ req' = [req EXCEPT ![w] = SummarizationStep(req[w], outcome)]
    /\ obs' = [obs EXCEPT ![w].summarized = IF outcome.ok THEN "ok" ELSE "failed",
                          ![w].sum_outcome = Stripped(outcome)]
    /\ pc' = [pc EXCEPT ![w] = IF req'[w].exc = "no" THEN "generate" ELSE "except"]
    /\ UNCHANGED <<user_memory, now, max_turns, max_short_term_messages, versions,
                   concurrency, budget, sent, per_user>>

\* generate_response steps 3 to 5 up to the save.
Generate(w, outcome) ==
    /\ pc[w] = "generate"
    /\ req' = [req EXCEPT ![w] = ReplyStep(req[w], outcome, max_short_term_messages)]
    /\ obs' = [obs EXCEPT ![w].reply_failed = ~outcome.ok,
                          ![w].reply_outcome = Stripped(outcome)]
    /\ pc' = [pc EXCEPT ![w] = IF req'[w].exc = "no" THEN "save" ELSE "except"]
    /\ UNCHANGED <<user_memory, now, max_turns, max_short_term_messages, versions,
                   concurrency, budget, sent, per_user>>

\* The two turns of the exchange of handler w.
NewTurns(w) ==
    << [role |-> "user", content |-> req[w].user_text],
       [role |-> "assistant", content |-> req[w].ai_response] >>

\* What per_user records of an exchange of handler w that is persisted.
Persisted(w) ==
    LET u == req[w].source_id
    IN  [per_user EXCEPT
           ![u].exchanges = @ + 1,
           ![u].clean = @ /\ obs[w].summarized # "failed" /\ ~obs[w].reply_failed,
           ![u].last_summary = obs[w].summarized,
           ![u].since_summary =
               (IF obs[w].summarized = "no" THEN @ ELSE <<>>) \o NewTurns(w),
           ![u].serial =
               IF per_user[u].overlapped THEN NoRecord
               ELSE GenerateResponse(@, req[w].user_text, obs[w].sum_outcome,
                                     obs[w].reply_outcome, max_turns,
                                     max_short_term_messages)]

\* Step 5 with the save wrapped in a try/except that logs and goes on: the
\* reply is returned whether the row was written or not.
SaveMemorySwallows(w, db_ok) ==
    /\ pc[w] = "save"
    /\ pc' = [pc EXCEPT ![w] = "reply"]
    /\ IF db_ok
       THEN /\ user_memory' = save_memory(user_memory, req[w].source_id, req[w].history,
                                          req[w].summary, req[w].turn_count, now + 1)
            /\ now' = now + 1
            /\ obs' = [obs EXCEPT ![w].saved_at = now + 1]
            /\ per_user' = Persisted(w)
       ELSE UNCHANGED <<user_memory, now, obs, per_user>>
    /\ UNCHANGED <<req, max_turns, max_short_term_messages, versions, concurrency,
                   budget, sent>>

\* generate_response step 5, self.db_manager.save_memory(...), and the
\* return to handle_message.  sqlite3 can raise (db_ok = FALSE): nothing is
\* committed then.
SaveMemory(w, db_ok) ==
    /\ pc[w] = "save"
    /\ IF db_ok
       THEN /\ user_memory' = save_memory(user_memory, req[w].source_id, req[w].history,
                                          req[w].summary, req[w].turn_count, now + 1)
            /\ now' = now + 1
            /\ obs' = [obs EXCEPT ![w].saved_at = now + 1]
            /\ per_user' = Persisted(w)
            /\ pc' = [pc EXCEPT ![w] = "reply"]
            /\ UNCHANGED req
       ELSE /\ pc' = [pc EXCEPT ![w] = "except"]
            /\ req' = [req EXCEPT ![w].exc = "sqlite3"]
            /\ UNCHANGED <<user_memory, now, obs, per_user>>
    /\ UNCHANGED <<max_turns, max_short_term_messages, versions, concurrency,
                   budget, sent>>

\* handle_message is over and its locals are gone; line_webhook is left to
\* answer.
Return(w) ==
    /\ pc' = [pc EXCEPT ![w] = "return"]
    /\ req' = [req EXCEPT ![w] = NoReq]
    /\ obs' = [obs EXCEPT ![w] = NoObs]

\* line_bot_api.reply_message(event.reply_token, TextSendMessage(reply_text))
\* in the try block; LINE can refuse it (line_ok = FALSE), which raises.
Reply(w, line_ok) ==
    /\ pc[w] = "reply"
    /\ sent' = [sent EXCEPT ![w] = Append(@, [text |-> req[w].ai_response,
                                              delivered |-> line_ok])]
    /\ IF line_ok
       THEN Return(w)
       ELSE /\ pc' = [pc EXCEPT ![w] = "except"]
            /\ req' = [req EXCEPT ![w].exc = "line"]
            /\ UNCHANGED obs
    /\ UNCHANGED <<user_memory, now, max_turns, max_short_term_messages, versions,
                   concurrency, budget, per_user>>

\* The except branch of handle_message logging the error and sending nothing.
ExceptSilent(w, line_ok) ==
    /\ pc[w] = "except"
    /\ Return(w)
    /\ UNCHANGED <<user_memory, now, max_turns, max_short_term_messages, versions,
                   concurrency, budget, sent, per_user>>

\* The except branch of handle_message: the apology is sent.  When LINE
\* refuses it too the exception leaves the handler (line_webhook answers 500).
Except(w, line_ok) ==
    /\ pc[w] = "except"
    /\ sent' = [sent EXCEPT ![w] = Append(@, [text |-> APOLOGY, delivered |-> line_ok])]
    /\ Return(w)
    /\ UNCHANGED <<user_memory, now, max_turns, max_short_term_messages, versions,
                   concurrency, budget, per_user>>

\* line_webhook answers the request ("OK", or 500 when the exception left
\* handle_message) and the request is over.
WebhookReturn(w) ==
    /\ pc[w] = "return"
    /\ pc' = [pc EXCEPT ![w] = "idle"]
    /\ req' = [req EXCEPT ![w] = NoReq]
    /\ sent' = [sent EXCEPT ![w] = <<>>]
    /\ UNCHANGED <<user_memory, now, max_turns, max_short_term_messages, versions,
                   concurrency, budget, obs, per_user>>

\* One step of a handler that has started: the call it is blocked in
\* returns (or raises) and the handler runs on to its next call.
Proceed(w) ==
    \/ \E db_ok \in BOOLEAN : GetMemory(w, db_ok)
    \/ \E outcome \in BackendOutcomes(RawSummaries) : Summarize(w, outcome)
    \/ \E outcome \in BackendOutcomes(RawReplies) : Generate(w, outcome)
    \/ \E db_ok \in BOOLEAN : SaveMemory(w, db_ok)
    \/ \E line_ok \in BOOLEAN : Reply(w, line_ok)
    \/ \E line_ok \in BOOLEAN : Except(w, line_ok)
    \/ WebhookReturn(w)

Next ==
    \E w \in Workers :
        \/ \E ev \in Events : HandleMessage(w, ev)
        \/ Proceed(w)

Spec ==
    Init /\ [][Next]_vars

\* One handler at a time, with every blocking call returning: a handler
\* that has started is synchronous code and runs to its end.
LiveSpec ==
    InitLive /\ [][Next]_vars /\ \A w \in Workers : WF_vars(Proceed(w))

SeqSpec ==
    InitSeq /\ [][Next]_vars

CapSpec ==
    InitCap /\ [][Next]_vars

VersionSpec ==
    InitVersion /\ [][Next]_vars

CorruptSpec ==
    InitCorrupt /\ [][Next]_vars

(***************************************************************************)
(* Properties                                                              *)
(***************************************************************************)
\* The record persisted for user_id u, as get_memory reads it back.
Stored(u) ==
    LET m == get_memory(user_memory, u)
    IN  Record(m.history, m.summary, m.turn_count)

\* Handler w has just persisted its exchange and its row is still the one
\* in the table.
JustSaved(w) ==
    /\ pc[w] = "reply"
    /\ obs[w].saved_at = LastUpdated(user_memory, req[w].source_id)

\* C1: in an exchange that starts with turn_count >= MAX_TURNS and whose
\* summarization call fails, the reply prompt is built from the summary and
\* the whole short-term history as loaded, and the persisted record keeps the
\* loaded summary, holds the loaded history followed by the two new turns and
\* has the loaded turn_count plus 1.
C1_FailedSummaryKeepsState ==
    \A w \in Workers :
        (JustSaved(w) /\ obs[w].summarized = "failed")
        => /\ req[w].messages = ReplyMessages(obs[w].loaded.summary,
                                              obs[w].loaded.history,
                                              req[w].user_text)
           /\ Stored(req[w].source_id).summary = obs[w].loaded.summary
           /\ Stored(req[w].source_id).history = obs[w].loaded.history \o NewTurns(w)
           /\ Stored(req[w].source_id).turn_count = obs[w].loaded.turn_count + 1

\* C2: when the summarization call failed in the last persisted exchange of
\* a participant, the next exchange of that participant finds
\* turn_count >= MAX_TURNS and issues a summarization call.
C2_FailedSummaryRetried ==
    \A w \in Workers :
        (pc[w] \in {"summarize", "generate", "save", "reply"}
         /\ obs[w].after_failed_summary)
        => /\ obs[w].loaded.turn_count >= max_turns
           /\ pc[w] = "summarize" \/ obs[w].summarized # "no"

\* C3: from a fresh participant and without a backend failure, exchanges
\* 1..MAX_TURNS do not summarize; exchange MAX_TURNS + 1 summarizes before
\* the prompt is built and persists turn_count 1, the two turns of that
\* exchange alone, and as summary the text the summarization call returned.
\* Whenever a summarization succeeds, the persisted summary is that text and
\* nothing else.
C3_SummarizationTrigger ==
    \A w \in Workers :
        JustSaved(w)
        => LET u == req[w].source_id
               k == per_user[u].exchanges
           IN  /\ (per_user[u].clean /\ k <= MAX_TURNS)
                  => /\ obs[w].summarized = "no"
                     /\ req[w].summary_messages = <<>>
               /\ (per_user[u].clean /\ k = MAX_TURNS + 1)
                  => /\ obs[w].summarized = "ok"
                     /\ req[w].summary_messages # <<>>
                     /\ req[w].messages =
                            ReplyMessages(req[w].new_summary_text, <<>>, req[w].user_text)
               /\ obs[w].summarized = "ok"
                  => /\ Stored(u).turn_count = 1
                     /\ Stored(u).history = NewTurns(w)
                     /\ Stored(u).summary = req[w].new_summary_text

\* C3 witness: exchange MAX_TURNS + 1 of a participant whose backend calls
\* all succeeded has just been persisted.
C3_Witness ==
    \E w \in Workers :
        /\ JustSaved(w)
        /\ per_user[req[w].source_id].clean
        /\ per_user[req[w].source_id].exchanges = MAX_TURNS + 1
        /\ Stored(req[w].source_id).summary # <<>>

\* C4: every persisted record has len(short_term) = 2 * turn_count.
C4_TurnCountInvariant ==
    \A u \in DOMAIN user_memory :
        Len(Stored(u).history) = 2 * Stored(u).turn_count

\* C4 witness: a record at the threshold, after a summarization took place
\* for that participant and the history was built up again.
C4_Witness ==
    \E u \in DOMAIN user_memory :
        /\ Stored(u).turn_count = MAX_TURNS
        /\ Stored(u).summary # <<>>
        /\ Len(Stored(u).history) = 2 * MAX_TURNS

\* The short-term history of handler w when step 5 starts: the loaded one,
\* or the empty one when the exchange summarized.
BeforeAppend(w) ==
    IF obs[w].summarized = "no" THEN obs[w].loaded.history ELSE <<>>

\* s is the last n entries of t, in the order of t.
IsLastOf(s, n, t) ==
    /\ Len(s) = n
    /\ n <= Len(t)
    /\ \A i \in 1..n : s[i] = t[Len(t) - n + i]

Min(a, b) ==
    IF a <= b THEN a ELSE b

\* C5: the persisted short_term never has more than MAX_SHORT_TERM_MESSAGES
\* entries; it is the history the exchange started step 5 with followed by
\* the two new turns, or the last MAX_SHORT_TERM_MESSAGES entries of that
\* sequence, in order, when the sequence is longer.  While no summarization
\* takes place it is therefore the most recent MAX_SHORT_TERM_MESSAGES turns
\* of all the turns exchanged.
C5_CapEnforced ==
    /\ \A u \in DOMAIN user_memory :
           Len(Stored(u).history) <= max_short_term_messages
    /\ \A w \in Workers :
           JustSaved(w)
           => LET appended == BeforeAppend(w) \o NewTurns(w)
                  u == req[w].source_id
              IN  /\ IsLastOf(Stored(u).history,
                              Min(max_short_term_messages, Len(appended)),
                              appended)
                  /\ IsLastOf(Stored(u).history,
                              Min(max_short_term_messages,
                                  Len(per_user[u].since_summary)),
                              per_user[u].since_summary)

\* C5 witness: an exchange without summarization whose appended sequence was
\* longer than the cap has just been persisted, three quarters of the way
\* into it (15 exchanges at a cap of 20).
C5_Witness ==
    \E w \in Workers :
        /\ JustSaved(w)
        /\ obs[w].summarized = "no"
        /\ Len(obs[w].loaded.history) + 2 > max_short_term_messages
        /\ 4 * Len(per_user[req[w].source_id].since_summary)
               = 6 * max_short_term_messages
        /\ Len(Stored(req[w].source_id).history) = max_short_term_messages

\* C6: when the backend call of a reply request fails, _call_gemini_api
\* raises nothing and returns a non-empty string; the exchange goes on to
\* the save, and the record it persists ends with that string as the
\* assistant turn.
C6_GeneratorFallback ==
    \A w \in Workers :
        obs[w].reply_failed
        => /\ req[w].exc # "gemini"
           /\ req[w].ai_response # <<>>
           /\ pc[w] \in {"save", "reply", "except"}
           /\ pc[w] = "except" => req[w].exc \in {"sqlite3", "line"}
           /\ JustSaved(w)
              => LET h == Stored(req[w].source_id).history
                 IN  /\ h # <<>>
                     /\ h[Len(h)] = [role |-> "assistant",
                                     content |-> req[w].ai_response]

\* C6 witness: an exchange whose reply call failed has been persisted.
C6_Witness ==
    \E w \in Workers :
        /\ obs[w].reply_failed
        /\ JustSaved(w)
        /\ req[w].ai_response # <<>>

\* The raw text of a backend exception occurs in the text.
HasRawError(text) ==
    \E i \in 1..Len(text) : text[i] \in GeminiErrors

\* C7: no text delivered to the end user contains the raw error text of a
\* backend failure.
C7_NoRawErrorDelivered ==
    \A w \in Workers :
        \A i \in 1..Len(sent[w]) :
            sent[w][i].delivered => ~HasRawError(sent[w][i].text)

\* C8: every message event handle_message accepts leads to a call of
\* reply_message with a text, whatever the backend calls and the table
\* read and write do.
C8_AlwaysReplies ==
    \A w \in Workers : (pc[w] = "load") ~> (sent[w] # <<>>)

\* C8 witness: a handler whose table write raised has sent the apology.
C8_Witness ==
    \E w \in Workers :
        /\ pc[w] = "return"
        /\ sent[w] # <<>>
        /\ sent[w][1].text = APOLOGY

\* Handlers w1 and w2 served the same participant, both read the same
\* version of the row before either wrote (load, load, save, save), w1 wrote
\* first, and the row w2 wrote is the one in the table.
Raced(w1, w2) ==
    /\ w1 # w2
    /\ req[w1].source_id = req[w2].source_id
    /\ obs[w1].saved_at > 0
    /\ obs[w2].saved_at > obs[w1].saved_at
    /\ obs[w1].loaded_at = obs[w2].loaded_at
    /\ LastUpdated(user_memory, req[w2].source_id) = obs[w2].saved_at

\* C9: after load, load, save, save for one participant the last writer
\* wins: the persisted record is the one the second writer built from the
\* record both had loaded, it holds the turns of that exchange only, and
\* turn_count went up by 1 for the two exchanges.
C9_LastWriterWins ==
    \A w1, w2 \in Workers :
        Raced(w1, w2)
        => LET u == req[w2].source_id
           IN  /\ obs[w1].loaded = obs[w2].loaded
               /\ Stored(u) = Record(req[w2].history, req[w2].summary,
                                     req[w2].turn_count)
               /\ Stored(u).history = BeforeAppend(w2) \o NewTurns(w2)
               /\ Stored(u).turn_count =
                      IF obs[w2].loaded.turn_count >= max_turns THEN 1
                      ELSE obs[w2].loaded.turn_count + 1

\* C9 witness: the race happened below the threshold; two exchanges were
\* persisted and the record shows one more turn pair and one more turn than
\* the record both had loaded, with the reply of the second writer, which
\* differs from the reply the first writer persisted.
C9_Witness ==
    \E w1, w2 \in Workers :
        /\ Raced(w1, w2)
        /\ obs[w2].summarized = "no"
        /\ req[w1].ai_response # req[w2].ai_response
        /\ per_user[req[w2].source_id].exchanges = obs[w2].loaded.turn_count + 2
        /\ Stored(req[w2].source_id).turn_count = obs[w2].loaded.turn_count + 1
        /\ Len(Stored(req[w2].source_id).history)
               = Len(obs[w2].loaded.history) + 2

\* The row of user_id u differs between the two states of a step.
RowChanged(u) ==
    \/ (u \in DOMAIN user_memory) # (u \in DOMAIN user_memory')
    \/ /\ u \in DOMAIN user_memory
       /\ u \in DOMAIN user_memory'
       /\ user_memory'[u] # user_memory[u]

\* A step in which the row of u changes is the save of an exchange of u.
OnlyOwnRowWritten ==
    \A u \in UserIds :
        RowChanged(u)
        => \E w \in Workers : /\ pc[w] = "save"
                              /\ pc'[w] = "reply"
                              /\ req[w].source_id = u

\* The record of a participant whose exchanges never overlapped each other
\* is the one its exchanges leave when they run alone, in order.
SerialPerParticipant ==
    \A u \in UserIds :
        ~per_user[u].overlapped => Stored(u) = per_user[u].serial

\* C10: exchanges of different participants are independent under every
\* interleaving: an exchange of A never changes the record of B, and the
\* record of each participant is the one that its own exchanges alone, run
\* in order, produce.
C10_Independent ==
    [][OnlyOwnRowWritten]_vars /\ []SerialPerParticipant

\* C10 witness: exchanges of two participants were in flight together (the
\* second read its row before the first wrote) and both are persisted.
C10_Witness ==
    \E w1, w2 \in Workers :
        /\ pc[w1] = "reply"
        /\ pc[w2] = "reply"
        /\ req[w1].source_id # req[w2].source_id
        /\ obs[w1].saved_at > obs[w2].loaded_at
        /\ obs[w2].saved_at > obs[w1].saved_at
        /\ ~per_user[req[w1].source_id].overlapped
        /\ ~per_user[req[w2].source_id].overlapped
        /\ Stored(req[w1].source_id) = per_user[req[w1].source_id].serial
        /\ Stored(req[w1].source_id).turn_count >= 1

\* C11: the memory algorithm does not depend on the version flag.  Whatever
\* flags the exchanges of a participant are run with, each record persisted
\* is the one the same exchanges, with the same backend outputs, leave when
\* every one of them runs with the flag of handle_message; whether an
\* exchange summarizes is decided by the loaded turn_count alone; and the
\* flag selects the model identifier only: "1.5" the stronger model, any
\* other value the default one.
C11_VersionOrthogonal ==
    /\ \A u \in UserIds :
           ~per_user[u].overlapped => Stored(u) = per_user[u].serial
    /\ \A w \in Workers :
           pc[w] \in {"load", "summarize", "generate", "save", "reply", "except"}
           => /\ req[w].version \in versions
              /\ req[w].model_name = IF req[w].version = "1.5"
                                     THEN "gemini-2.5-pro" ELSE "gemini-2.5-flash"
    /\ \A w \in Workers :
           pc[w] \in {"save", "reply"}
           => (obs[w].summarized # "no") = (obs[w].loaded.turn_count >= max_turns)

\* C11 witness: an exchange run with the premium flag has summarized and is
\* persisted, after exchanges of the same participant, and the record is the
\* one the run with the default flag leaves.
C11_Witness ==
    \E w \in Workers :
        /\ JustSaved(w)
        /\ req[w].version = "1.5"
        /\ req[w].model_name = "gemini-2.5-pro"
        /\ obs[w].summarized = "ok"
        /\ per_user[req[w].source_id].exchanges = MAX_TURNS + 1
        /\ Stored(req[w].source_id) = per_user[req[w].source_id].serial

\* The get_memory call of handler w returns or raises in this step.
GetMemoryStep(w) ==
    pc[w] = "load" /\ pc'[w] # "load"

\* Handler w holds the record its get_memory call returned.
HasLoaded(w) ==
    pc[w] \in {"summarize", "generate", "save", "reply"}

\* C12: get_memory on a user_id without a row returns the initial record
\* (empty history, empty summary, turn_count 0); no get_memory call creates
\* or changes a row; two get_memory calls for one user_id with no save of
\* that row in between return the same record.
C12_GetMemoryDefault ==
    /\ [][\A w \in Workers : GetMemoryStep(w) => user_memory' = user_memory]_vars
    /\ [](\A u \in UserIds \ DOMAIN user_memory :
              get_memory(user_memory, u) =
                  [user_id |-> u, history |-> <<>>, summary |-> <<>>, turn_count |-> 0])
    /\ [](\A w \in Workers :
              (HasLoaded(w) /\ obs[w].loaded_at = 0)
              => /\ obs[w].loaded.history = <<>>
                 /\ obs[w].loaded.summary = <<>>
                 /\ obs[w].loaded.turn_count = 0)
    /\ [](\A w1, w2 \in Workers :
              (/\ HasLoaded(w1)
               /\ HasLoaded(w2)
               /\ req[w1].source_id = req[w2].source_id
               /\ obs[w1].loaded_at = obs[w2].loaded_at)
              => obs[w1].loaded = obs[w2].loaded)

\* C12 witness: two handlers have read the record of a user_id that has no
\* row, one after the other, and there is still no row.
C12_Witness ==
    \E w1, w2 \in Workers :
        /\ w1 # w2
        /\ pc[w1] = "generate"
        /\ pc[w2] = "generate"
        /\ req[w1].source_id = req[w2].source_id
        /\ req[w1].source_id \notin DOMAIN user_memory
        /\ obs[w1].loaded = NoRecord
        /\ obs[w2].loaded = NoRecord

\* Every column of the row of u after the step comes from the locals of one
\* handler, the one whose save_memory call commits in the step.
WholeRowWritten(u) ==
    \E w \in Workers :
        /\ pc[w] = "save"
        /\ pc'[w] = "reply"
        /\ req[w].source_id = u
        /\ JsonValid(user_memory'[u].history)
        /\ JsonLoads(user_memory'[u].history) = req[w].history
        /\ user_memory'[u].summary = req[w].summary
        /\ user_memory'[u].turn_count = req[w].turn_count
        /\ user_memory'[u].last_updated = now'

\* C13: save_memory is an atomic upsert.  After save_memory(id, h, s, n)
\* get_memory(id) returns exactly h, s and n, whether the row existed before
\* or not; and whenever a row changes, all its columns are those of one
\* save, so no get_memory call reads a row that mixes two saves.
C13_AtomicUpsert ==
    /\ [](\A w \in Workers :
              JustSaved(w)
              => get_memory(user_memory, req[w].source_id) =
                     [user_id    |-> req[w].source_id,
                      history    |-> req[w].history,
                      summary    |-> req[w].summary,
                      turn_count |-> req[w].turn_count])
    /\ [][\A u \in UserIds : RowChanged(u) => WholeRowWritten(u)]_vars

\* C13 witness: a save has overwritten an existing row with a new history,
\* a new summary and a new turn_count, and get_memory returns the new ones.
C13_Witness ==
    \E w \in Workers :
        /\ JustSaved(w)
        /\ obs[w].loaded_at > 0
        /\ Stored(req[w].source_id) = Record(req[w].history, req[w].summary,
                                              req[w].turn_count)
        /\ Stored(req[w].source_id).history # obs[w].loaded.history
        /\ Stored(req[w].source_id).summary # obs[w].loaded.summary
        /\ Stored(req[w].source_id).turn_count # obs[w].loaded.turn_count

\* t ends with s.
EndsWith(t, s) ==
    /\ Len(s) <= Len(t)
    /\ SubSeq(t, Len(t) - Len(s) + 1, Len(t)) = s

\* t starts with s.
StartsWith(t, s) ==
    /\ Len(s) <= Len(t)
    /\ SubSeq(t, 1, Len(s)) = s

\* C14: the reply prompt is, in this order: one system message with the
\* persona text, to which the summary is appended if and only if it is not
\* empty; one message per turn of the short-term history as it is after
\* step 2, in the order of the history, user staying user and assistant
\* becoming model; and one user message with the incoming text.
C14_PromptStructure ==
    \A w \in Workers :
        pc[w] \in {"save", "reply"}
        => LET msgs == req[w].messages
               h == BeforeAppend(w)
               n == Len(h)
           IN  /\ Len(msgs) = n + 2
               /\ msgs[1].role = "system"
               /\ StartsWith(msgs[1].content, personality_prompt)
               /\ req[w].summary = <<>> => msgs[1].content = personality_prompt
               /\ req[w].summary # <<>>
                  => /\ EndsWith(msgs[1].content, req[w].summary)
                     /\ Len(msgs[1].content) > Len(personality_prompt) + Len(req[w].summary)
               /\ \A i \in 1..n :
                      /\ msgs[i + 1].content = h[i].content
                      /\ h[i].role = "user" => msgs[i + 1].role = "user"
                      /\ h[i].role = "assistant" => msgs[i + 1].role = "model"
               /\ msgs[n + 2] = [role |-> "user", content |-> req[w].user_text]

\* C14 witness: a prompt built with a summary and with a history that holds
\* a user turn and an assistant turn.
C14_Witness ==
    \E w \in Workers :
        /\ pc[w] = "save"
        /\ req[w].summary # <<>>
        /\ Len(BeforeAppend(w)) >= 2
        /\ Len(req[w].messages) = Len(BeforeAppend(w)) + 2
        /\ req[w].messages[3].role = "model"

\* The save_memory call of handler w is over in this step and the row of its
\* user_id is not written: the write failed.
SaveFailedStep(w) ==
    /\ pc[w] = "save"
    /\ pc'[w] # "save"
    /\ ~RowChanged(req[w].source_id)

\* Handler w is on its way to the except branch because its save_memory call
\* raised.
SaveFailed(w) ==
    /\ pc[w] = "except"
    /\ req[w].exc = "sqlite3"
    /\ req[w].messages # <<>>

\* C15: when the table write of an exchange fails, generate_response returns
\* no reply: the exception reaches its caller, which sends the apology and
\* never the reply text; and the table is as it was, so the record of the
\* participant is the one the exchange loaded.  A reply is returned only
\* after the row is written.
C15_WriteFailureSurfaced ==
    /\ [][\A w \in Workers :
              SaveFailedStep(w)
              => /\ pc'[w] = "except"
                 /\ req'[w].exc = "sqlite3"
                 /\ user_memory' = user_memory
                 /\ sent'[w] = <<>>]_vars
    /\ [][\A w \in Workers :
              (SaveFailed(w) /\ pc'[w] # "except")
              => /\ Len(sent'[w]) = 1
                 /\ sent'[w][1].text = APOLOGY
                 /\ sent'[w][1].text # req[w].ai_response
                 /\ user_memory' = user_memory]_vars
    /\ [](\A w \in Workers :
              SaveFailed(w)
              => /\ sent[w] = <<>>
                 /\ Stored(req[w].source_id) = obs[w].loaded
                 /\ LastUpdated(user_memory, req[w].source_id) = obs[w].loaded_at)
    /\ [](\A w \in Workers : pc[w] = "reply" => obs[w].saved_at > 0)

\* C15 witness: the write of an exchange of a participant with a stored
\* record has failed after the reply was generated; the record is the one
\* loaded and nothing has been sent.
C15_Witness ==
    \E w \in Workers :
        /\ SaveFailed(w)
        /\ req[w].ai_response # <<>>
        /\ obs[w].loaded_at > 0
        /\ Stored(req[w].source_id) = obs[w].loaded
        /\ sent[w] = <<>>

\* The history column of the row of u cannot be decoded.
Undecodable(u) ==
    u \in DOMAIN user_memory /\ ~JsonValid(user_memory[u].history)

\* C16: get_memory on a row whose history cannot be decoded raises nothing
\* and returns an empty history with the stored summary and the stored
\* turn_count; the exchange that read such a row goes on, and the record it
\* persists has a history that decodes: the two turns of that exchange.
C16_CorruptHistoryFailsSoft ==
    /\ \A u \in UserIds :
           Undecodable(u)
           => get_memory(user_memory, u) =
                  [user_id    |-> u,
                   history    |-> <<>>,
                   summary    |-> user_memory[u].summary,
                   turn_count |-> user_memory[u].turn_count]
    /\ \A w \in Workers :
           (pc[w] \in {"summarize", "generate", "save"} /\ obs[w].decode_failed)
           => /\ Undecodable(req[w].source_id)
              /\ req[w].exc = "no"
              /\ obs[w].loaded = Record(<<>>, user_memory[req[w].source_id].summary,
                                        user_memory[req[w].source_id].turn_count)
    /\ \A w \in Workers :
           (JustSaved(w) /\ obs[w].decode_failed)
           => /\ JsonValid(user_memory[req[w].source_id].history)
              /\ Stored(req[w].source_id).history = NewTurns(w)
              /\ Stored(req[w].source_id).turn_count =
                     IF obs[w].loaded.turn_count >= max_turns THEN 1
                     ELSE obs[w].loaded.turn_count + 1
              /\ obs[w].summarized = "no"
                 => Stored(req[w].source_id).summary = obs[w].loaded.summary

\* C16 witness: an exchange that read an undecodable history next to a
\* summary and a turn_count has been persisted, and the row decodes.
C16_Witness ==
    \E w \in Workers :
        /\ JustSaved(w)
        /\ obs[w].decode_failed
        /\ obs[w].loaded.summary # <<>>
        /\ obs[w].loaded.turn_count > 0
        /\ obs[w].summarized = "no"
        /\ JsonValid(user_memory[req[w].source_id].history)
        /\ Stored(req[w].source_id).history = NewTurns(w)

\* C17: an exchange that starts with turn_count < MAX_TURNS makes no
\* summarization call and leaves the summary as loaded; the history it
\* persists is the loaded history, unchanged and in order, followed by the
\* user turn with the incoming text and the assistant turn with the reply;
\* turn_count is the loaded one plus 1; and the text of that assistant turn
\* is the string generate_response returns, which handle_message sends.
C17_PlainExchangeFrame ==
    /\ [](\A w \in Workers :
              (HasLoaded(w) /\ obs[w].loaded.turn_count < max_turns)
              => /\ pc[w] # "summarize"
                 /\ obs[w].summarized = "no"
                 /\ req[w].summary_messages = <<>>
                 /\ req[w].summary = obs[w].loaded.summary)
    /\ [](\A w \in Workers :
              (JustSaved(w) /\ obs[w].loaded.turn_count < max_turns)
              => LET after == Stored(req[w].source_id)
                     before == obs[w].loaded
                     n == Len(before.history)
                 IN  /\ after.summary = before.summary
                     /\ after.turn_count = before.turn_count + 1
                     /\ Len(after.history) = n + 2
                     /\ \A i \in 1..n : after.history[i] = before.history[i]
                     /\ after.history[n + 1] =
                            [role |-> "user", content |-> req[w].user_text]
                     /\ after.history[n + 2] =
                            [role |-> "assistant", content |-> req[w].ai_response])
    /\ [][\A w \in Workers :
              (pc[w] = "reply" /\ pc'[w] # "reply")
              => /\ Len(sent'[w]) = 1
                 /\ sent'[w][1].text = req[w].ai_response]_vars

\* C17 witness: an exchange that loaded a record below the threshold with
\* turns in it has been persisted with two more turns.
C17_Witness ==
    \E w \in Workers :
        /\ JustSaved(w)
        /\ obs[w].loaded.turn_count >= 1
        /\ obs[w].loaded.turn_count < max_turns
        /\ obs[w].loaded.history # <<>>
        /\ Stored(req[w].source_id).history = obs[w].loaded.history \o NewTurns(w)
        /\ Stored(req[w].source_id).turn_count = obs[w].loaded.turn_count + 1

RECURSIVE IsSubsequence(_, _)
\* The entries of s occur in t, in the order of s.
IsSubsequence(s, t) ==
    IF s = <<>> THEN TRUE
    ELSE IF t = <<>> THEN FALSE
    ELSE IF Head(s) = Head(t) THEN IsSubsequence(Tail(s), Tail(t))
    ELSE IsSubsequence(s, Tail(t))

RECURSIVE Rendered(_)
\* The role label and the text of every turn of history, in order.
Rendered(history) ==
    IF history = <<>> THEN <<>>
    ELSE << IF Head(history).role = "user" THEN "User" ELSE "Assistant" >>
         \o Head(history).content \o Rendered(Tail(history))

\* The turns of the loaded history that the record persisted by handler w
\* no longer holds: the record holds the last entries of the loaded history
\* followed by the two new turns, the turns in front of those are gone.
Dropped(w) ==
    LET before == obs[w].loaded.history
        kept == Len(Stored(req[w].source_id).history) - 2
    IN  SubSeq(before, 1, Len(before) - kept)

\* C18: no turn is dropped silently.  The record an exchange persists holds
\* the end of the history it loaded, in order, then its two new turns; and
\* when turns of the loaded history are gone, the exchange has issued a
\* summarization request whose user message holds the loaded summary and,
\* after it, the role label and the text of every one of those turns, in the
\* order of the history.
C18_NoSilentDrop ==
    \A w \in Workers :
        JustSaved(w)
        => LET before == obs[w].loaded
               after == Stored(req[w].source_id)
               kept == Len(after.history) - 2
               n == Len(before.history)
           IN  /\ kept >= 0
               /\ kept <= n
               /\ SubSeq(after.history, 1, kept) = SubSeq(before.history, n - kept + 1, n)
               /\ Dropped(w) # <<>>
                  => /\ obs[w].summarized # "no"
                     /\ Len(req[w].summary_messages) = 2
                     /\ req[w].summary_messages[2].role = "user"
                     /\ IsSubsequence(before.summary \o Rendered(Dropped(w)),
                                      req[w].summary_messages[2].content)

\* C18 witness: an exchange that loaded a summary and a full history has
\* summarized; every loaded turn is gone from the record and the request
\* held them all.
C18_Witness ==
    \E w \in Workers :
        /\ JustSaved(w)
        /\ obs[w].loaded.summary # <<>>
        /\ Len(obs[w].loaded.history) = 2 * MAX_TURNS
        /\ Dropped(w) = obs[w].loaded.history
        /\ IsSubsequence(obs[w].loaded.summary \o Rendered(obs[w].loaded.history),
                         req[w].summary_messages[2].content)

\* C19: with MAX_SHORT_TERM_MESSAGES = 2 * MAX_TURNS and a table that starts
\* empty, every record persisted has 1 <= turn_count <= MAX_TURNS and at most
\* MAX_SHORT_TERM_MESSAGES entries, under every interleaving of handlers,
\* those of one participant included; the list an exchange has after its
\* two appends is never longer than the cap, so the cut is never taken.
C19_BoundsUnderShippedConstants ==
    /\ max_short_term_messages = 2 * max_turns
    /\ \A u \in DOMAIN user_memory :
           /\ Stored(u).turn_count >= 1
           /\ Stored(u).turn_count <= max_turns
           /\ Len(Stored(u).history) <= max_short_term_messages
    /\ \A w \in Workers :
           pc[w] \in {"save", "reply"}
           => /\ Len(BeforeAppend(w)) + 2 <= max_short_term_messages
              /\ req[w].history = BeforeAppend(w) \o NewTurns(w)
              /\ req[w].turn_count >= 1
              /\ req[w].turn_count <= max_turns

\* C19 witness: two exchanges of one participant ran concurrently from the
\* same record and the record persisted last is at the threshold with a
\* history as long as the cap.
C19_Witness ==
    \E w1, w2 \in Workers :
        /\ Raced(w1, w2)
        /\ Stored(req[w2].source_id).turn_count = max_turns
        /\ Len(Stored(req[w2].source_id).history) = max_short_term_messages
        /\ max_short_term_messages = 2 * max_turns

\* Handler w is in the try block of handle_message or in its except branch.
Processing(w) ==
    pc[w] \in {"load", "summarize", "generate", "save", "reply", "except"}

\* The event in the locals l is a group or room message without the bot
\* name in its text, or comes from a source type that is not supported
\* ("none": the locals hold no event).
Ignorable(l) ==
    \/ l.source_type \in {"group", "room"}
       /\ \A i \in 1..Len(l.event_text) :
              l.event_text[i] \notin {BOT_MENTION_NAME, AT_MENTION}
    \/ l.source_type \notin {"none", "user", "group", "room"}

\* C20: handle_message ignores a group or room message whose text does not
\* hold the bot name, and a message of an unsupported source type: it
\* returns at once, so no record is read or written, no backend call is made
\* and nothing is sent; a message of a user source is always processed.
C20_IgnoredEvents ==
    /\ [](\A w \in Workers : Processing(w) => ~Ignorable(req[w]))
    /\ [][\A w \in Workers :
              (pc[w] = "idle" /\ pc'[w] # "idle")
              => /\ Ignorable(req'[w])
                    => /\ pc'[w] = "return"
                       /\ user_memory' = user_memory
                       /\ sent' = sent
                       /\ obs' = obs
                       /\ per_user' = per_user
                 /\ req'[w].source_type = "user" => pc'[w] = "load"]_vars
    /\ [][\A w \in Workers :
              (pc[w] = "return" /\ Ignorable(req[w]) /\ pc'[w] # "return")
              => /\ pc'[w] = "idle"
                 /\ user_memory' = user_memory
                 /\ sent'[w] = <<>>
                 /\ obs' = obs
                 /\ per_user' = per_user]_vars
    /\ [](\A w \in Workers :
              (pc[w] = "return" /\ Ignorable(req[w]))
              => /\ sent[w] = <<>>
                 /\ obs[w] = NoObs
                 /\ req[w].messages = <<>>
                 /\ req[w].summary_messages = <<>>)

\* C20 witness: a group message without the bot name and a message of an
\* unsupported source type have been handled; nothing is stored and nothing
\* was sent.
C20_Witness ==
    \E w1, w2 \in Workers :
        /\ pc[w1] = "return"
        /\ req[w1].source_type = "group"
        /\ ~ContainsBotName(req[w1].event_text)
        /\ pc[w2] = "return"
        /\ req[w2].source_type = "beacon"
        /\ sent[w1] = <<>>
        /\ sent[w2] = <<>>
        /\ user_memory = << >>

=============================================================================
